---- MODULE Spec2Model ----
(***************************************************************************)
(* Beam-search engine of rs-tsptw: the persistent parent tree, the         *)
(* candidate pool (BeamsearchCollection), the generational solver          *)
(* (BeamsearchSolver) and the TSPTW adapter that drives it.                *)
(*                                                                         *)
(* Fitness, level, time and distance are f64 in the source; the model      *)
(* uses integers (no NaN, no rounding), on which total_cmp is <=.          *)
(***************************************************************************)
EXTENDS Integers, Sequences, FiniteSets, TLC

VARIABLES
    coll,       \* BeamsearchCollection: [nodes : Seq(Node), sorted : BOOLEAN]
    pre,        \* the collection as it stood before the last operation
    op,         \* the last operation on the collection, its arguments and result
    next_id,    \* the identity of the next node to be allocated
    solver,     \* BeamsearchSolver: its closures and params (its coll is in run)
    run,        \* one call of solve(): self.coll, the locals, the position, the result
    twin,       \* a second call of solve() on an equal solver
    tree,       \* the heap of ParentTreeNode cells and the handles the caller holds
    hash,       \* a fold of calc_commutative_hash over a path of cities
    sol,        \* a TSPSolution and the last call of one of its methods
    tour        \* a TSPTW instance and a node that expand has reached from its start node

vars == <<coll, pre, op, next_id, solver, run, twin, tree, hash, sol, tour>>

----------------------------------------------------------------------------
(* Bounds of the pool model *)

MaxNodes == 3       \* nodes ever added to one pool
MaxFit == 1         \* dummy_fitness ranges over 0..MaxFit
MaxLevel == 2       \* dummy_level ranges over 0..MaxLevel

(* Bounds of the solver model *)

MaxStart == 2       \* number of start_nodes
MaxBeam == 2        \* beam_width ranges over 1..MaxBeam
LastLevel == 2      \* the level at which the expanders stop (LAST_LEVEL)

----------------------------------------------------------------------------
(* parent_tree.rs: an Option is a sequence of length 0 or 1 *)

new_root(id, data) == [id |-> id, data |-> data, parent |-> <<>>]

new_child(self, id, data) == [id |-> id, data |-> data, parent |-> <<self>>]

is_root(n) == n.parent = <<>>

(* parent_tree.rs on the heap: every Arc::new makes a cell of the       *)
(* sequence inner, known by its index; strong is the reference count of *)
(* the Arc, freed is set when the cell is dropped. A handle is a         *)
(* ParentTreeNode the caller holds; handles[a] counts those of cell a.   *)

MaxAlloc == 3       \* cells ever allocated
MaxHandles == 3     \* handles the caller holds at one time

Payloads == {0, 1}

NoTreeOp == [name |-> "none", node |-> 0, ancestors |-> <<>>, parents |-> <<>>]

NoTree == [inner |-> <<>>, made_by |-> <<>>, handles |-> <<>>, op |-> NoTreeOp]

tree_new_root(t, data) ==
    [t EXCEPT !.inner = Append(@, [parent |-> <<>>, data |-> data,
                                   strong |-> 1, freed |-> FALSE]),
              !.made_by = Append(@, "new_root"),
              !.handles = Append(@, 1)]

(* Arc::clone of the Arc of cell a *)
arc_clone(inner, a) == [inner EXCEPT ![a].strong = @ + 1]

tree_new_child(t, self, data) ==
    [t EXCEPT !.inner = Append(arc_clone(@, self),
                               [parent |-> <<self>>, data |-> data,
                                strong |-> 1, freed |-> FALSE]),
              !.made_by = Append(@, "new_child"),
              !.handles = Append(@, 1)]

tree_clone(t, self) ==
    [t EXCEPT !.inner = arc_clone(@, self), !.handles[self] = @ + 1]

(* the drop of an Arc that frees the cell and forgets its field parent *)
arc_drop_forgets_parent(inner, a) ==
    IF inner[a].strong > 1 THEN [inner EXCEPT ![a].strong = @ - 1]
    ELSE [inner EXCEPT ![a].strong = 0, ![a].freed = TRUE]

(* the drop of an Arc of cell a with the last reference gone: the cell *)
(* is freed and its field parent is dropped in turn                    *)
RECURSIVE arc_drop(_, _)
arc_drop(inner, a) ==
    IF inner[a].strong > 1 THEN [inner EXCEPT ![a].strong = @ - 1]
    ELSE IF inner[a].parent = <<>>
         THEN [inner EXCEPT ![a].strong = 0, ![a].freed = TRUE]
         ELSE arc_drop([inner EXCEPT ![a].strong = 0, ![a].freed = TRUE],
                       inner[a].parent[1])

(* a handle of cell self goes out of scope *)
tree_drop(t, self) ==
    [t EXCEPT !.inner = arc_drop(@, self), !.handles[self] = @ - 1]

parent(inner, a) == inner[a].parent

(* std::iter::successors(first, |node| node.parent()) *)
RECURSIVE successors(_, _)
successors(inner, first) ==
    IF first = <<>> THEN <<>>
    ELSE <<first[1]>> \o successors(inner, parent(inner, first[1]))

(* parents() that starts with the node itself *)
parents_from_self(inner, a) == successors(inner, <<a>>)

parents(inner, a) == successors(inner, parent(inner, a))

ancestors(inner, a) == successors(inner, <<a>>)

Abs(x) == IF x < 0 THEN -x ELSE x

RECURSIVE SumSeq(_)
SumSeq(s) == IF s = <<>> THEN 0 ELSE s[1] + SumSeq(Tail(s))

(* mocks.rs *)
TestNode == [dummy_fitness : 0..MaxFit, dummy_level : 0..MaxLevel]

(* BeamsearchNode::fitness of TestNode and of TSPNode *)
fitness(data) ==
    IF "dist" \in DOMAIN data THEN data.dist ELSE data.dummy_fitness

(* BeamsearchNode::level of TestNode and of TSPNode *)
level(data) ==
    IF "time" \in DOMAIN data THEN data.time ELSE data.dummy_level

(* Bounds of the TSPTW model *)

MaxCities == 4      \* cities of a generated instance
MaxDist == 1        \* distance between two cities of a uniform instance
Horizon == 10       \* end of every window of a generated instance

----------------------------------------------------------------------------
(* tsp_utility.rs *)

(* the loop of is_prime: it returns true iff no i = 5, 11, 17, ... with    *)
(* i * i <= n has i or i + 2 dividing n                                    *)
is_prime_from(n, first) ==
    \A k \in 0..(n \div 30) :
        LET i == first + 6 * k
        IN i <= (n \div i) => ((n % i) # 0 /\ (n % (i + 2)) # 0)

is_prime(n) ==
    IF n <= 1 THEN FALSE
    ELSE IF n <= 3 THEN TRUE
    ELSE IF (n % 2) = 0 \/ (n % 3) = 0 THEN FALSE
    ELSE is_prime_from(n, 5)

RECURSIVE prime_not_above(_)
prime_not_above(candidate) ==
    IF is_prime(candidate) THEN candidate ELSE prime_not_above(candidate - 2)

calc_next_prime_not_above(n) ==
    prime_not_above(IF (n % 2) = 0 THEN n - 1 ELSE n)

(* u32::MAX / 1000 *)
U32MaxDiv1000 == 4294967

PRIME == calc_next_prime_not_above(U32MaxDiv1000)

(* u32 arithmetic on 16-bit halves, so that no intermediate value exceeds *)
(* 31 bits: seed.wrapping_mul(m) % PRIME for seed < 2^32 and m < 2^15     *)
wrapping_mul_mod_prime(seed, m) ==
    LET sh == seed \div 65536
        sl == seed % 65536
        lo == sl * m
        hi == (sh * m + (lo \div 65536)) % 65536
    IN (((((hi * 256) % PRIME) * 256) % PRIME) + (lo % 65536)) % PRIME

calc_commutative_hash(seed, node) ==
    wrapping_mul_mod_prime(IF seed = 0 THEN seed + 1 ELSE seed, node + 1)

(* the number of cities the hash expects at most (the divisor of PRIME) *)
ExpectedCities == 1000

MaxPath == 4        \* cities folded into one hash

(* city indices on both sides of ExpectedCities *)
HashCities == (ExpectedCities - MaxPath)..(ExpectedCities + MaxPath - 1)

(* let mut hash = seed; for node in path { hash = calc_commutative_hash(hash, *node) } *)
RECURSIVE fold_hash(_, _)
fold_hash(seed, path) ==
    IF path = <<>> THEN seed
    ELSE fold_hash(calc_commutative_hash(seed, Head(path)), Tail(path))

NoHash == [seed |-> 1, path |-> <<>>, folded |-> 0, value |-> 1]

----------------------------------------------------------------------------
(* tsp_instance.rs: cities are 0-based in the source, sequences 1-based here *)

TSPInstance_new(num_cities, distances, time_windows) ==
    [num_cities |-> num_cities, distances |-> distances, time_windows |-> time_windows]

dist_from_to(instance, from, to) == instance.distances[from + 1][to + 1]

window_of(instance, node) == instance.time_windows[node + 1]

(* tsp_solver.rs, tests::create_test_instance *)
create_test_instance ==
    TSPInstance_new(3,
        <<<<0, 1000, 1>>, <<1000, 0, 1000>>, <<1000, 100, 0>>>>,
        <<<<0, 1200>>, <<200, 2000>>, <<5, 2000>>>>)

(* tsp_solver.rs, tests::create_small_instance *)
create_small_instance ==
    TSPInstance_new(2, <<<<0, 1>>, <<2, 0>>>>, <<<<0, 1>>, <<2, 100>>>>)

(* instances of n cities that are all d apart, every window [0, Horizon] *)
uniform_instance(n, d) ==
    TSPInstance_new(n,
        [i \in 1..n |-> [j \in 1..n |-> IF i = j THEN 0 ELSE d]],
        [i \in 1..n |-> <<0, Horizon>>])

(* instances of n cities on a line, city i at position i *)
line_instance(n) ==
    TSPInstance_new(n,
        [i \in 1..n |-> [j \in 1..n |-> IF i < j THEN j - i ELSE i - j]],
        [i \in 1..n |-> <<0, Horizon>>])

(* six cities with two round trips within the windows, 0 1 5 4 2 3 0 of *)
(* distance 10 and 0 2 3 4 1 5 0 of distance 7; every other leg is too  *)
(* long for the windows, and both trips reach city 4 third, at time 4    *)
two_trip_instance ==
    TSPInstance_new(6,
        <<<<0, 1, 1, 100, 100, 100>>,
          <<100, 0, 100, 100, 100, 1>>,
          <<100, 100, 0, 1, 100, 100>>,
          <<3, 100, 100, 0, 2, 100>>,
          <<100, 1, 3, 100, 0, 100>>,
          <<1, 100, 100, 100, 1, 0>>>>,
        <<<<0, 20>>, <<0, 20>>, <<0, 20>>, <<0, 20>>, <<4, 20>>, <<0, 20>>>>)

Instances ==
    {create_test_instance, create_small_instance, two_trip_instance}
        \cup {uniform_instance(n, d) : n \in 1..MaxCities, d \in 0..MaxDist}
        \cup {line_instance(n) : n \in 2..MaxCities}

----------------------------------------------------------------------------
(* tsp_solution.rs *)

Max(a, b) == IF a >= b THEN a ELSE b

(* the loop of is_valid_subsolution from path[k] on (cnt = k - 2) *)
RECURSIVE subsolution_loop(_, _, _, _, _, _)
subsolution_loop(instance, path, k, time, visited, last_visited) ==
    IF k > Len(path) THEN TRUE
    ELSE LET node == path[k]
             arrival == time + dist_from_to(instance, last_visited, node)
         IN IF node \in visited /\ k - 2 < Len(path) - 2 THEN FALSE
            ELSE IF arrival > window_of(instance, node)[2] THEN FALSE
            ELSE subsolution_loop(instance, path, k + 1,
                                  Max(arrival, window_of(instance, node)[1]),
                                  visited \cup {node}, node)

is_valid_subsolution(instance, path) ==
    IF path = <<>> THEN TRUE
    ELSE /\ subsolution_loop(instance, path, 2,
                             Max(0, window_of(instance, path[1])[1]), {path[1]}, path[1])
         /\ ~(Len(path) = instance.num_cities + 1 /\ path[Len(path)] # path[1])

is_valid(instance, path) ==
    /\ Len(path) = instance.num_cities + (IF instance.num_cities = 1 THEN 0 ELSE 1)
    /\ is_valid_subsolution(instance, path)

(* the loop of get_time_distance_diffs from the pair path[k], path[k + 1] on *)
RECURSIVE diffs_loop(_, _, _, _)
diffs_loop(instance, path, k, time) ==
    IF k >= Len(path) THEN <<>>
    ELSE LET next_distance == dist_from_to(instance, path[k], path[k + 1])
             time_diff == Max(time + next_distance, window_of(instance, path[k + 1])[1]) - time
         IN <<[time |-> time_diff, dist |-> next_distance]>>
                \o diffs_loop(instance, path, k + 1, time + time_diff)

get_time_distance_diffs(instance, path) == diffs_loop(instance, path, 1, 0)

(* the fold of get_time_distance over the diffs *)
RECURSIVE fold_time_dist(_, _)
fold_time_dist(x, diffs) ==
    IF diffs = <<>> THEN x
    ELSE fold_time_dist([time |-> x.time + Head(diffs).time, dist |-> x.dist + Head(diffs).dist],
                        Tail(diffs))

get_time_distance(instance, path) ==
    fold_time_dist([time |-> window_of(instance, path[1])[1], dist |-> 0],
                   get_time_distance_diffs(instance, path))

(* tsp_solution.rs, tests::create_test_instance *)
solution_test_instance ==
    TSPInstance_new(2, <<<<0, 1>>, <<2, 0>>>>, <<<<0, 101>>, <<2, 2>>>>)

(* tsp_solution.rs, the instances of the tests of the single city and of waiting *)
single_city_instance == TSPInstance_new(1, <<<<0>>>>, <<<<0, 100>>>>)

late_single_city_instance == TSPInstance_new(1, <<<<0>>>>, <<<<100, 101>>>>)

two_city_instance ==
    TSPInstance_new(2, <<<<0, 0>>, <<0, 0>>>>, <<<<0, 2000>>, <<2000, 3000>>>>)

NoCall == [name |-> "new", ret |-> <<>>]

NoSolution == [instance |-> single_city_instance, path |-> <<>>, call |-> NoCall]

(* TSPSolution::new *)
TSPSolution_new(instance, path) == [instance |-> instance, path |-> path, call |-> NoCall]

----------------------------------------------------------------------------
(* tsp_solver.rs *)

(* node.ancestors().map(|x| x.data().target).collect(): the node first *)
RECURSIVE ancestor_targets(_)
ancestor_targets(n) ==
    <<n.data.target>> \o (IF n.parent = <<>> THEN <<>> ELSE ancestor_targets(n.parent[1]))

Reverse(s) == [i \in DOMAIN s |-> s[Len(s) + 1 - i]]

(* the path of make_tsp_solution_from_node *)
path_of(n) == Reverse(ancestor_targets(n))

SeqRange(s) == {s[i] : i \in DOMAIN s}

(* the set S as the sequence of its elements in rising order *)
RECURSIVE Rising(_)
Rising(S) ==
    IF S = {} THEN <<>>
    ELSE LET m == CHOOSE x \in S : \A y \in S : x <= y
         IN <<m>> \o Rising(S \ {m})

MinOf(S) == CHOOSE x \in S : \A y \in S : x <= y

(* remaining_nodes that offers every city but the one the node is at *)
remaining_nodes_with_visited(visited_nodes, n) ==
    Rising({i \in 0..(n - 1) :
                \/ i # visited_nodes[1]
                \/ (Len(visited_nodes) = n /\ i = visited_nodes[Len(visited_nodes)])})

(* remaining_nodes of expand: the cities not on the path, or the last of *)
(* visited_nodes (the start) once the path holds every city              *)
remaining_nodes(visited_nodes, n) ==
    Rising({i \in 0..(n - 1) :
                \/ i \notin SeqRange(visited_nodes)
                \/ (Len(visited_nodes) = n /\ i = visited_nodes[Len(visited_nodes)])})

(* max_possible_time of expand: the earliest end of a remaining window *)
max_possible_time(instance, remaining) ==
    MinOf({window_of(instance, remaining[k])[2] : k \in DOMAIN remaining})

(* the closure get_next_time_for of expand *)
get_next_time_for(node, instance, next_target) ==
    Max(node.data.time + dist_from_to(instance, node.data.target, next_target),
        window_of(instance, next_target)[1])

(* expanded_nodes of expand: a child for every target that passed the filter *)
expanded_nodes(node, instance, targets) ==
    [k \in DOMAIN targets |->
        [time |-> get_next_time_for(node, instance, targets[k]),
         target |-> targets[k],
         dist |-> node.data.dist + dist_from_to(instance, node.data.target, targets[k]),
         visited_node_hash |->
            calc_commutative_hash(node.data.visited_node_hash, targets[k])]]

(* expand after the reached_end check *)
expand_remaining(node, instance, remaining) ==
    IF \E k \in DOMAIN remaining : window_of(instance, remaining[k])[2] < node.data.time
    THEN <<>>
    ELSE expanded_nodes(node, instance,
            SelectSeq(remaining,
                      LAMBDA t : get_next_time_for(node, instance, t)
                                    <= max_possible_time(instance, remaining)))

(* reached_end of expand *)
reached_end(visited_nodes, n) ==
    Len(visited_nodes) = (IF n > 1 THEN n + 1 ELSE 1)

tsp_expand(node, instance) ==
    IF reached_end(ancestor_targets(node), instance.num_cities) THEN <<>>
    ELSE expand_remaining(node, instance,
            remaining_nodes(ancestor_targets(node), instance.num_cities))

(* fn is_similar: the same target and the same cities on the path *)
tsp_is_similar(a, b) ==
    IF a.data.target # b.data.target THEN FALSE
    ELSE LET a_cities == ancestor_targets(a)
             b_cities == ancestor_targets(b)
         IN /\ Len(a_cities) = Len(b_cities)
            /\ \A c \in SeqRange(a_cities) \cup SeqRange(b_cities) :
                Cardinality({i \in DOMAIN a_cities : a_cities[i] = c})
                    = Cardinality({i \in DOMAIN b_cities : b_cities[i] = c})

(* the closure that solve_tsp passes as is_similar *)
solve_tsp_is_similar(x, y) ==
    x.data.target = y.data.target /\ Abs(x.data.time - y.data.time) < 1

(* the closure that solve_tsp passes as the bucket key *)
solve_tsp_similarity_hash(n) == n.data.visited_node_hash

(* the closure that solve_tsp passes as is_valid_solution *)
solve_tsp_is_valid_solution(instance, n) == is_valid(instance, path_of(n))

start_node(instance) ==
    [time |-> window_of(instance, 0)[1], target |-> 0, dist |-> 0, visited_node_hash |-> 1]

(* tsp_solver.rs, the instance of tests::expander_does_not_consider_nodes_too_far_in_future *)
far_future_instance ==
    TSPInstance_new(4,
        <<<<0, 0, 0, 2001>>, <<0, 0, 0, 0>>, <<0, 0, 0, 0>>, <<0, 0, 0, 0>>>>,
        <<<<0, 3000>>, <<1000, 2000>>, <<2001, 3000>>, <<0, 4000>>>>)

(* three cities 1 apart; the window of city 0 opens at 5, that of city 1 *)
(* at 3 and that of city 2 at 9                                          *)
late_start_instance ==
    TSPInstance_new(3,
        <<<<0, 1, 1>>, <<1, 0, 1>>, <<1, 1, 0>>>>,
        <<<<5, 20>>, <<3, 20>>, <<9, 20>>>>)

NoTour == [instance |-> single_city_instance, node |-> new_root(0, start_node(single_city_instance))]

----------------------------------------------------------------------------
(* The closures the tests and the solver hand to remove_similars *)

SimKinds == {"never", "data_eq", "level_eq", "level_near", "level_ge"}

KeyKinds == {"zero", "level"}

SymmetricSimKinds == {"never", "data_eq", "level_eq", "level_near"}

is_never_similar(a, b) == FALSE

(* a call of the closure is_similar, which is named by its body *)
call_is_similar(is_similar, a, b) ==
    CASE is_similar = "never" -> is_never_similar(a, b)
      [] is_similar = "data_eq" -> a.data = b.data
      [] is_similar = "level_eq" -> level(a.data) = level(b.data)
      [] is_similar = "level_near" -> Abs(level(a.data) - level(b.data)) <= 1
      [] is_similar = "level_ge" -> level(a.data) >= level(b.data)
      [] is_similar = "solve_tsp" -> solve_tsp_is_similar(a, b)

(* a call of the closure similarity_hash, which is named by its body *)
call_similarity_hash(similarity_hash, n) ==
    CASE similarity_hash = "zero" -> 0
      [] similarity_hash = "level" -> level(n.data)
      [] similarity_hash = "solve_tsp" -> solve_tsp_similarity_hash(n)

----------------------------------------------------------------------------
(* beamsearch_collection.rs *)

DefaultCollection == [nodes |-> <<>>, sorted |-> TRUE]

len(c) == Len(c.nodes)

add(c, node) == [nodes |-> Append(c.nodes, node), sorted |-> FALSE]

Front(s) == SubSeq(s, 1, Len(s) - 1)

(* slice::sort_by with total_cmp: a stable sort, here by insertion *)
insert_stable(s, x) ==
    LET k == Cardinality({i \in DOMAIN s : fitness(s[i].data) <= fitness(x.data)})
    IN SubSeq(s, 1, k) \o <<x>> \o SubSeq(s, k + 1, Len(s))

RECURSIVE inner_sort(_)
inner_sort(to_sort) ==
    IF to_sort = <<>> THEN <<>>
    ELSE insert_stable(inner_sort(Front(to_sort)), to_sort[Len(to_sort)])

sort(c) ==
    IF c.sorted THEN c
    ELSE [nodes |-> inner_sort(c.nodes), sorted |-> TRUE]

(* keep_best with the truncation one node too long *)
keep_best_one_too_many(c, target_size) ==
    IF target_size >= len(c) THEN [coll |-> c, ret |-> 0]
    ELSE LET s == sort(c)
         IN [coll |-> [nodes |-> SubSeq(s.nodes, 1, target_size + 1), sorted |-> s.sorted],
             ret |-> len(c) - target_size]

(* returns the collection after the call and the returned count *)
keep_best(c, target_size) ==
    IF target_size >= len(c) THEN [coll |-> c, ret |-> 0]
    ELSE LET s == sort(c)
         IN [coll |-> [nodes |-> SubSeq(s.nodes, 1, target_size), sorted |-> s.sorted],
             ret |-> len(c) - target_size]

(* Iterator::min_by returns the first of several equally minimal elements *)
min_by_fitness(nodes) ==
    LET m == CHOOSE i \in DOMAIN nodes :
                 /\ \A j \in DOMAIN nodes : fitness(nodes[i].data) <= fitness(nodes[j].data)
                 /\ \A j \in 1..(i - 1) : fitness(nodes[j].data) > fitness(nodes[i].data)
    IN nodes[m]

get_best(c) ==
    IF c.sorted
    THEN (IF c.nodes = <<>> THEN <<>> ELSE <<c.nodes[1]>>)
    ELSE (IF c.nodes = <<>> THEN <<>> ELSE <<min_by_fitness(c.nodes)>>)

(* Vec::swap_remove: the last element takes the place of the removed one *)
swap_remove(g, i) ==
    IF i = Len(g) THEN Front(g) ELSE [Front(g) EXCEPT ![i] = g[Len(g)]]

(* scan_inner with the mark put on the better node of a similar pair *)
RECURSIVE scan_inner_marks_inner(_, _, _, _)
scan_inner_marks_inner(S, keep_mask, outer_i, inner_i) ==
    IF inner_i = 0 THEN keep_mask
    ELSE IF ~keep_mask[inner_i]
    THEN scan_inner_marks_inner(S, keep_mask, outer_i, inner_i - 1)
    ELSE scan_inner_marks_inner(S,
                    IF S[<<outer_i, inner_i>>]
                    THEN [keep_mask EXCEPT ![inner_i] = FALSE]
                    ELSE keep_mask,
                    outer_i, inner_i - 1)

(* the inner loop of remove_similars_for: inner_i runs from outer_i - 1 down *)
RECURSIVE scan_inner(_, _, _, _)
scan_inner(S, keep_mask, outer_i, inner_i) ==
    IF inner_i = 0 THEN keep_mask
    ELSE IF ~keep_mask[inner_i] THEN scan_inner(S, keep_mask, outer_i, inner_i - 1)
    ELSE scan_inner(S,
                    IF S[<<outer_i, inner_i>>]
                    THEN [keep_mask EXCEPT ![outer_i] = FALSE]
                    ELSE keep_mask,
                    outer_i, inner_i - 1)

(* scan_outer with the inner range one short: the nearest better node is skipped *)
RECURSIVE scan_outer_skips_neighbour(_, _, _)
scan_outer_skips_neighbour(S, keep_mask, outer_i) ==
    IF outer_i = 0 THEN keep_mask
    ELSE scan_outer_skips_neighbour(S,
             scan_inner(S, keep_mask, outer_i, IF outer_i <= 1 THEN 0 ELSE outer_i - 2),
             outer_i - 1)

(* the outer loop of remove_similars_for: outer_i runs from the worst node down *)
RECURSIVE scan_outer(_, _, _)
scan_outer(S, keep_mask, outer_i) ==
    IF outer_i = 0 THEN keep_mask
    ELSE IF ~keep_mask[outer_i] THEN scan_outer(S, keep_mask, outer_i - 1)
    ELSE scan_outer(S, scan_inner(S, keep_mask, outer_i, outer_i - 1), outer_i - 1)

(* the removal loop of remove_similars_for *)
RECURSIVE remove_masked(_, _, _)
remove_masked(group, keep_mask, i) ==
    IF i = 0 THEN group
    ELSE remove_masked(IF ~keep_mask[i] THEN swap_remove(group, i) ELSE group,
                       keep_mask, i - 1)

(* S[<<o, i>>] is is_similar(group[o], group[i]) on the sorted group *)
remove_similars_for(group, is_similar) ==
    LET g == inner_sort(group)
        n == Len(g)
        S == [p \in (1..n) \X (1..n) |-> call_is_similar(is_similar, g[p[1]], g[p[2]])]
        keep_mask == scan_outer(S, [i \in 1..n |-> TRUE], n)
    IN remove_masked(g, keep_mask, n)

(* create_similarity_groups_from computing the key of the first node    *)
(* only, so that every node is filed under that key                     *)
create_similarity_groups_from_first_key(nodes, similarity_hash) ==
    [h \in {call_similarity_hash(similarity_hash, nodes[i]) : i \in DOMAIN nodes} |->
        IF h = call_similarity_hash(similarity_hash, nodes[1]) THEN nodes ELSE <<>>]

create_similarity_groups_from(nodes, similarity_hash) ==
    [h \in {call_similarity_hash(similarity_hash, nodes[i]) : i \in DOMAIN nodes} |->
        SelectSeq(nodes, LAMBDA n : call_similarity_hash(similarity_hash, n) = h)]

(* the orders in which a HashMap may yield its keys *)
IterationOrders(K) ==
    {o \in [1..Cardinality(K) -> K] : \A i, j \in DOMAIN o : o[i] = o[j] => i = j}

RECURSIVE flatten(_)
flatten(ss) == IF ss = <<>> THEN <<>> ELSE ss[1] \o flatten(Tail(ss))

(* remove_similars with one scan over the concatenated groups instead of *)
(* one scan per group                                                    *)
remove_similars_scans_across_groups(c, is_similar, similarity_hash, order) ==
    LET size_before == Len(c.nodes)
        similarity_groups == create_similarity_groups_from(c.nodes, similarity_hash)
        nodes == remove_similars_for(
                    flatten([i \in DOMAIN order |-> similarity_groups[order[i]]]),
                    is_similar)
    IN [coll |-> [nodes |-> nodes, sorted |-> c.sorted],
        ret |-> size_before - Len(nodes)]

(* order: the iteration order of the HashMap of groups in this call *)
remove_similars(c, is_similar, similarity_hash, order) ==
    LET size_before == Len(c.nodes)
        similarity_groups == create_similarity_groups_from(c.nodes, similarity_hash)
        nodes == flatten([i \in DOMAIN order |->
                            remove_similars_for(similarity_groups[order[i]], is_similar)])
    IN [coll |-> [nodes |-> nodes, sorted |-> c.sorted],
        ret |-> size_before - Len(nodes)]

BucketKeys(nodes, similarity_hash) ==
    {call_similarity_hash(similarity_hash, nodes[i]) : i \in DOMAIN nodes}

(* no operation on the pool yet *)
NoOp == [name |-> "new", arg |-> 0, sim |-> "never", key |-> "zero", ret |-> 0]

----------------------------------------------------------------------------
(* beamsearch_solver.rs *)

Expanders ==
    {[kind |-> "none", last_level |-> 0]}
        \cup [kind : {"base", "bifurcate", "spread"}, last_level : 1..LastLevel]

ValidKinds == [kind : {"always", "never", "last_level"}]

child_data(n, k) ==
    [dummy_fitness |-> n.data.dummy_fitness + k, dummy_level |-> n.data.dummy_level + k]

(* a call of the closure expander: base_expander and bifurcate_expander of *)
(* the tests (last_level is LAST_LEVEL), an expander without children, and *)
(* one whose two children differ in fitness and level                      *)
call_expander(expander, n) ==
    CASE expander.kind = "none" -> <<>>
      [] expander.kind = "base" ->
            IF n.data.dummy_level < expander.last_level THEN <<child_data(n, 1)>> ELSE <<>>
      [] expander.kind = "bifurcate" ->
            IF n.data.dummy_level < expander.last_level
            THEN <<child_data(n, 1), child_data(n, 1)>> ELSE <<>>
      [] expander.kind = "spread" ->
            IF n.data.dummy_level < expander.last_level
            THEN <<child_data(n, 1), child_data(n, 2)>> ELSE <<>>
      [] expander.kind = "solve_tsp" -> tsp_expand(n, expander.instance)

(* a call of the closure is_valid_solution *)
call_is_valid_solution(is_valid_solution, n) ==
    CASE is_valid_solution.kind = "always" -> TRUE
      [] is_valid_solution.kind = "never" -> FALSE
      [] is_valid_solution.kind = "last_level" -> n.data.dummy_level >= LastLevel
      [] is_valid_solution.kind = "solve_tsp" ->
            solve_tsp_is_valid_solution(is_valid_solution.instance, n)

NoSolver ==
    [expander |-> [kind |-> "none", last_level |-> 0], is_similar |-> "never", similarity_hash |-> "zero",
     is_valid_solution |-> [kind |-> "never"], beam_width |-> 0, prune_similars |-> FALSE]

NoRun ==
    [coll |-> DefaultCollection, all_expansions |-> 0, nr_expanded |-> 0,
     old_coll |-> DefaultCollection, generation |-> 0, next_id |-> 1, nr_roots |-> 0,
     roots |-> <<>>, pc |-> "idle", result |-> <<>>]

RECURSIVE add_all(_, _, _)
add_all(c, start_nodes, id) ==
    IF start_nodes = <<>> THEN c
    ELSE add_all(add(c, new_root(id, Head(start_nodes))), Tail(start_nodes), id + 1)

(* BeamsearchSolver::new followed by the entry of solve() *)
new_run(start_nodes) ==
    [NoRun EXCEPT !.coll = add_all(DefaultCollection, start_nodes, 1),
                  !.next_id = Len(start_nodes) + 1,
                  !.nr_roots = Len(start_nodes),
                  !.roots = start_nodes,
                  !.pc = "loop"]

(* expand that adds the children to the old collection instead of *)
(* replacing it                                                   *)
expand_keeps_old_nodes(slv, r) ==
    LET old_coll == r.coll
        results == [i \in DOMAIN old_coll.nodes |->
                      LET node == old_coll.nodes[i]
                          children == call_expander(slv.expander, node)
                      IN [j \in DOMAIN children |-> [parent |-> node, data |-> children[j]]]]
        all == flatten(results)
        nr_expanded == Len(all)
        added == [nodes |-> old_coll.nodes \o
                            [k \in DOMAIN all |->
                               new_child(all[k].parent, r.next_id + k - 1, all[k].data)],
                  sorted |-> FALSE]
    IN [coll |-> IF nr_expanded = 0 THEN old_coll ELSE added,
        nr_expanded |-> nr_expanded,
        next_id |-> r.next_id + nr_expanded]

(* BeamsearchSolver::expand: the children in the order of the old *)
(* collection (the parallel map is collected in order)            *)
expand(slv, r) ==
    LET old_coll == r.coll
        results == [i \in DOMAIN old_coll.nodes |->
                      LET node == old_coll.nodes[i]
                          children == call_expander(slv.expander, node)
                      IN [j \in DOMAIN children |-> [parent |-> node, data |-> children[j]]]]
        all == flatten(results)
        nr_expanded == Len(all)
        added == [nodes |-> [k \in DOMAIN all |->
                               new_child(all[k].parent, r.next_id + k - 1, all[k].data)],
                  sorted |-> FALSE]
    IN [coll |-> IF nr_expanded = 0 THEN old_coll ELSE added,
        nr_expanded |-> nr_expanded,
        next_id |-> r.next_id + nr_expanded]

(* BeamsearchSolver::create_result *)
create_result(slv, c, all_expansions) ==
    LET best == get_best(c)
    IN IF best # <<>> /\ call_is_valid_solution(slv.is_valid_solution, best[1])
       THEN [best |-> get_best(c), nr_expansions |-> all_expansions]
       ELSE [best |-> <<>>, nr_expansions |-> all_expansions]

(* the HashMap orders that the remove_similars of this iteration may take; *)
(* <<>> stands for no call                                                  *)
PruneOrders(slv, c) ==
    IF slv.prune_similars
    THEN IterationOrders(BucketKeys(c.nodes, slv.similarity_hash))
    ELSE {<<>>}

(* the call of remove_similars in solve(): the solver hands its is_similar *)
(* closure and its bucket-key closure to the collection                   *)
solver_remove_similars(slv, c, order) ==
    remove_similars(c, slv.is_similar, slv.similarity_hash, order)

(* iteration with the expansions counted after deduplication and truncation *)
iteration_counts_kept_nodes(slv, r, order) ==
    LET e == expand(slv, r)
        pruned == IF slv.prune_similars
                  THEN solver_remove_similars(slv, e.coll, order).coll
                  ELSE e.coll
    IN IF e.nr_expanded = 0
       THEN [r EXCEPT !.coll = pruned,
                      !.old_coll = r.coll,
                      !.nr_expanded = 0,
                      !.pc = "done",
                      !.result = <<create_result(slv, pruned, r.all_expansions)>>]
       ELSE [r EXCEPT !.coll = keep_best(pruned, slv.beam_width).coll,
                      !.old_coll = r.coll,
                      !.nr_expanded = e.nr_expanded,
                      !.all_expansions = r.all_expansions
                                            + len(keep_best(pruned, slv.beam_width).coll),
                      !.generation = r.generation + 1,
                      !.next_id = e.next_id]

(* iteration that returns only when the pool is empty, not when nothing *)
(* was expanded                                                         *)
iteration_returns_on_empty_pool(slv, r, order) ==
    LET e == expand(slv, r)
        pruned == IF slv.prune_similars
                  THEN solver_remove_similars(slv, e.coll, order).coll
                  ELSE e.coll
    IN IF e.coll.nodes = <<>>
       THEN [r EXCEPT !.coll = pruned,
                      !.old_coll = r.coll,
                      !.nr_expanded = 0,
                      !.pc = "done",
                      !.result = <<create_result(slv, pruned, r.all_expansions)>>]
       ELSE [r EXCEPT !.coll = keep_best(pruned, slv.beam_width).coll,
                      !.old_coll = r.coll,
                      !.nr_expanded = e.nr_expanded,
                      !.all_expansions = r.all_expansions + e.nr_expanded,
                      !.generation = r.generation + 1,
                      !.next_id = e.next_id]

(* one iteration of the loop of solve(); order is the HashMap order taken *)
(* by remove_similars                                                      *)
iteration(slv, r, order) ==
    LET e == expand(slv, r)
        pruned == IF slv.prune_similars
                  THEN solver_remove_similars(slv, e.coll, order).coll
                  ELSE e.coll
    IN IF e.nr_expanded = 0
       THEN [r EXCEPT !.coll = pruned,
                      !.old_coll = r.coll,
                      !.nr_expanded = 0,
                      !.pc = "done",
                      !.result = <<create_result(slv, pruned, r.all_expansions)>>]
       ELSE [r EXCEPT !.coll = keep_best(pruned, slv.beam_width).coll,
                      !.old_coll = r.coll,
                      !.nr_expanded = e.nr_expanded,
                      !.all_expansions = r.all_expansions + e.nr_expanded,
                      !.generation = r.generation + 1,
                      !.next_id = e.next_id]

(* the level at which tests::base_expander stops, and beam_width of *)
(* tests::test_simple_solve                                         *)
BaseLastLevel == 2

TestSimpleBeamWidth == 2

(* the solver of tests::test_simple_solve *)
test_simple_solve ==
    [expander |-> [kind |-> "base", last_level |-> BaseLastLevel],
     is_similar |-> "never", similarity_hash |-> "zero",
     is_valid_solution |-> [kind |-> "always"],
     beam_width |-> TestSimpleBeamWidth, prune_similars |-> TRUE]

(* LAST_LEVEL and beam_width of tests::test_big_solve *)
TestBigLastLevel == 10

TestBigBeamWidth == 4

(* the solver of tests::test_big_solve *)
test_big_solve ==
    [expander |-> [kind |-> "bifurcate", last_level |-> TestBigLastLevel],
     is_similar |-> "never", similarity_hash |-> "zero",
     is_valid_solution |-> [kind |-> "always"],
     beam_width |-> TestBigBeamWidth, prune_similars |-> TRUE]

Solvers ==
    {slv \in [expander : Expanders, is_similar : SimKinds,
              similarity_hash : KeyKinds, is_valid_solution : ValidKinds,
              beam_width : 1..MaxBeam, prune_similars : BOOLEAN] :
        ~slv.prune_similars => (slv.is_similar = "never" /\ slv.similarity_hash = "zero")}
        \cup {test_simple_solve, test_big_solve}

(* start payloads at level 0 or already at the last level *)
StartData == [dummy_fitness : 0..MaxFit, dummy_level : {0, LastLevel}]

StartNodes == UNION {[1..n -> StartData] : n \in 0..MaxStart}

SolveInit ==
    /\ coll = DefaultCollection
    /\ pre = DefaultCollection
    /\ op = NoOp
    /\ next_id = 1
    /\ solver \in Solvers
    /\ \E start_nodes \in StartNodes : run = new_run(start_nodes)
    /\ twin = NoRun
    /\ tree = NoTree
    /\ hash = NoHash
    /\ sol = NoSolution
    /\ tour = NoTour

(* an iteration of solve() that expanded at least one child *)
Generation ==
    /\ run.pc = "loop"
    /\ expand(solver, run).nr_expanded > 0
    /\ \E order \in PruneOrders(solver, expand(solver, run).coll) :
        run' = iteration(solver, run, order)
    /\ UNCHANGED <<coll, pre, op, next_id, solver, twin, tree, hash, sol, tour>>

(* the iteration of solve() that expanded nothing and returns the result *)
Finish ==
    /\ run.pc = "loop"
    /\ expand(solver, run).nr_expanded = 0
    /\ \E order \in PruneOrders(solver, expand(solver, run).coll) :
        run' = iteration(solver, run, order)
    /\ UNCHANGED <<coll, pre, op, next_id, solver, twin, tree, hash, sol, tour>>

SolveNext == Generation \/ Finish

SpecSolve == SolveInit /\ [][SolveNext]_vars

(* solve_tsp: the solver it builds for an instance, and its start node *)
solve_tsp_solver(instance, params) ==
    [expander |-> [kind |-> "solve_tsp", last_level |-> 0, instance |-> instance],
     is_similar |-> "solve_tsp",
     similarity_hash |-> "solve_tsp",
     is_valid_solution |-> [kind |-> "solve_tsp", instance |-> instance],
     beam_width |-> params.beam_width,
     prune_similars |-> params.prune_similars]

(* beam_width of main and of tests::simple_test *)
TspBeamWidth == 100

TspParams == [beam_width : (1..MaxBeam) \cup {TspBeamWidth}, prune_similars : BOOLEAN]

TspInit ==
    /\ coll = DefaultCollection
    /\ pre = DefaultCollection
    /\ op = NoOp
    /\ next_id = 1
    /\ \E instance \in Instances, params \in TspParams :
        /\ solver = solve_tsp_solver(instance, params)
        /\ run = new_run(<<start_node(instance)>>)
    /\ twin = NoRun
    /\ tree = NoTree
    /\ hash = NoHash
    /\ sol = NoSolution
    /\ tour = NoTour

SpecTsp == TspInit /\ [][SolveNext]_vars

(* a second solve() on an equal solver with equal start nodes, called *)
(* after the first has returned                                       *)
TwinInit ==
    /\ SolveInit
    /\ twin = NoRun
    /\ tree = NoTree
    /\ hash = NoHash
    /\ sol = NoSolution
    /\ tour = NoTour

TwinStart ==
    /\ run.pc = "done"
    /\ twin.pc = "idle"
    /\ twin' = [NoRun EXCEPT !.coll = add_all(DefaultCollection,
                                   [i \in 1..run.nr_roots |-> run.roots[i]], 1),
                             !.next_id = run.nr_roots + 1,
                             !.nr_roots = run.nr_roots,
                             !.roots = run.roots,
                             !.pc = "loop"]
    /\ UNCHANGED <<coll, pre, op, next_id, solver, run, tree, hash, sol, tour>>

TwinIteration ==
    /\ twin.pc = "loop"
    /\ \E order \in PruneOrders(solver, expand(solver, twin).coll) :
        twin' = iteration(solver, twin, order)
    /\ UNCHANGED <<coll, pre, op, next_id, solver, run, tree, hash, sol, tour>>

TwinNext == Generation \/ Finish \/ TwinStart \/ TwinIteration

SpecTwin == TwinInit /\ [][TwinNext]_vars

----------------------------------------------------------------------------
(* The pool driven by arbitrary calls of its public operations *)

PoolInit ==
    /\ coll = DefaultCollection
    /\ pre = DefaultCollection
    /\ op = NoOp
    /\ next_id = 1
    /\ solver = NoSolver
    /\ run = NoRun
    /\ twin = NoRun
    /\ tree = NoTree
    /\ hash = NoHash
    /\ sol = NoSolution
    /\ tour = NoTour

(* coll.add(Node::new_root(data)) *)
Add ==
    /\ next_id <= MaxNodes
    /\ \E data \in TestNode : coll' = add(coll, new_root(next_id, data))
    /\ next_id' = next_id + 1
    /\ pre' = coll
    /\ op' = [NoOp EXCEPT !.name = "add"]
    /\ UNCHANGED <<solver, run, twin, tree, hash, sol, tour>>

(* coll.sort() *)
Sort ==
    /\ coll' = sort(coll)
    /\ pre' = coll
    /\ op' = [NoOp EXCEPT !.name = "sort"]
    /\ UNCHANGED <<next_id, solver, run, twin, tree, hash, sol, tour>>

(* coll.keep_best(target_size) *)
KeepBest ==
    /\ \E target_size \in 0..MaxNodes :
        LET r == keep_best(coll, target_size)
        IN /\ coll' = r.coll
           /\ op' = [NoOp EXCEPT !.name = "keep_best", !.arg = target_size, !.ret = r.ret]
    /\ pre' = coll
    /\ UNCHANGED <<next_id, solver, run, twin, tree, hash, sol, tour>>

(* coll.remove_similars(is_similar, similarity_hash) *)
RemoveSimilars ==
    /\ \E sim \in SimKinds, key \in KeyKinds :
        \E order \in IterationOrders(BucketKeys(coll.nodes, key)) :
            LET r == remove_similars(coll, sim, key, order)
            IN /\ coll' = r.coll
               /\ op' = [name |-> "remove_similars", arg |-> 0,
                         sim |-> sim, key |-> key, ret |-> r.ret]
    /\ pre' = coll
    /\ UNCHANGED <<next_id, solver, run, twin, tree, hash, sol, tour>>

PoolNext == Add \/ Sort \/ KeepBest \/ RemoveSimilars

SpecPool == PoolInit /\ [][PoolNext]_vars

(* A freshly filled pool that is then deduplicated, as the tests of *)
(* remove_similars and the solver's generations use it              *)
Fill == op.name \in {"new", "add"} /\ Add

Dedup == op.name \in {"new", "add"} /\ RemoveSimilars

DedupNext == Fill \/ Dedup

SpecDedup == PoolInit /\ [][DedupNext]_vars

(* A pool that is filled, deduplicated, and at once deduplicated again *)
(* with the same closures                                              *)

MaxGroup == 4       \* nodes added to the pool that is deduplicated twice

FillGroup ==
    /\ op.name \in {"new", "add"}
    /\ next_id <= MaxGroup
    /\ \E data \in TestNode : coll' = add(coll, new_root(next_id, data))
    /\ next_id' = next_id + 1
    /\ pre' = coll
    /\ op' = [NoOp EXCEPT !.name = "add"]
    /\ UNCHANGED <<solver, run, twin, tree, hash, sol, tour>>

(* the second coll.remove_similars(is_similar, similarity_hash) *)
DedupAgain ==
    /\ op.name = "remove_similars"
    /\ op.arg = 0
    /\ \E order \in IterationOrders(BucketKeys(coll.nodes, op.key)) :
        LET r == remove_similars(coll, op.sim, op.key, order)
        IN /\ coll' = r.coll
           /\ op' = [op EXCEPT !.arg = 1, !.ret = r.ret]
    /\ pre' = coll
    /\ UNCHANGED <<next_id, solver, run, twin, tree, hash, sol, tour>>

RepeatNext == FillGroup \/ Dedup \/ DedupAgain

SpecRepeat == PoolInit /\ [][RepeatNext]_vars

----------------------------------------------------------------------------
(* A caller that builds trees, clones and drops handles, and walks them *)

TreeInit ==
    /\ PoolInit
    /\ tree = NoTree
    /\ hash = NoHash
    /\ sol = NoSolution
    /\ tour = NoTour

(* the cells the caller holds a handle of *)
Held == {a \in DOMAIN tree.handles : tree.handles[a] > 0}

TreeOp(name, node) == [NoTreeOp EXCEPT !.name = name, !.node = node]

(* let n = ParentTreeNode::new_root(data) *)
NewRoot ==
    /\ Len(tree.inner) < MaxAlloc
    /\ SumSeq(tree.handles) < MaxHandles
    /\ \E data \in Payloads :
        tree' = [tree_new_root(tree, data) EXCEPT
                    !.op = TreeOp("new_root", Len(tree.inner) + 1)]
    /\ UNCHANGED <<coll, pre, op, next_id, solver, run, twin, hash, sol, tour>>

(* let n = self.new_child(data) *)
NewChild ==
    /\ Len(tree.inner) < MaxAlloc
    /\ SumSeq(tree.handles) < MaxHandles
    /\ \E self \in Held, data \in Payloads :
        tree' = [tree_new_child(tree, self, data) EXCEPT
                    !.op = TreeOp("new_child", self)]
    /\ UNCHANGED <<coll, pre, op, next_id, solver, run, twin, hash, sol, tour>>

(* let n = self.clone() *)
Clone ==
    /\ SumSeq(tree.handles) < MaxHandles
    /\ \E self \in Held :
        tree' = [tree_clone(tree, self) EXCEPT !.op = TreeOp("clone", self)]
    /\ UNCHANGED <<coll, pre, op, next_id, solver, run, twin, hash, sol, tour>>

(* drop(self) *)
Drop ==
    /\ \E self \in Held :
        tree' = [tree_drop(tree, self) EXCEPT !.op = TreeOp("drop", self)]
    /\ UNCHANGED <<coll, pre, op, next_id, solver, run, twin, hash, sol, tour>>

(* self.ancestors().collect() and self.parents().collect(), where self *)
(* is a handle or a node that a walk from a handle has yielded          *)
Walk ==
    /\ \E h \in Held :
        \E self \in {ancestors(tree.inner, h)[i] : i \in 1..Len(ancestors(tree.inner, h))} :
            tree' = [tree EXCEPT !.op = [name |-> "walk", node |-> self,
                                         ancestors |-> ancestors(tree.inner, self),
                                         parents |-> parents(tree.inner, self)]]
    /\ UNCHANGED <<coll, pre, op, next_id, solver, run, twin, hash, sol, tour>>

TreeNext == NewRoot \/ NewChild \/ Clone \/ Drop \/ Walk

SpecTree == TreeInit /\ [][TreeNext]_vars

----------------------------------------------------------------------------
(* The hash of a path, folded city by city as expand does for its children *)

HashPaths ==
    {q \in UNION {[1..n -> HashCities] : n \in 0..MaxPath} :
        \A i, j \in DOMAIN q : q[i] = q[j] => i = j}

HashInit ==
    /\ coll = DefaultCollection
    /\ pre = DefaultCollection
    /\ op = NoOp
    /\ next_id = 1
    /\ solver = NoSolver
    /\ run = NoRun
    /\ twin = NoRun
    /\ tree = NoTree
    /\ \E seed \in {0, 1}, path \in HashPaths :
        hash = [seed |-> seed, path |-> path, folded |-> 0, value |-> seed]
    /\ sol = NoSolution
    /\ tour = NoTour

(* hash = calc_commutative_hash(hash, next_target) *)
FoldCity ==
    /\ hash.folded < Len(hash.path)
    /\ hash' = [hash EXCEPT !.folded = @ + 1,
                            !.value = calc_commutative_hash(@, hash.path[hash.folded + 1])]
    /\ UNCHANGED <<coll, pre, op, next_id, solver, run, twin, tree, sol, tour>>

HashNext == FoldCity

SpecHash == HashInit /\ [][HashNext]_vars

----------------------------------------------------------------------------
(* A TSPSolution over any path, and the calls of its methods *)

MaxOver == 1        \* entries a path may have beyond a closed round trip

SolutionInstances ==
    {solution_test_instance, single_city_instance, late_single_city_instance,
     two_city_instance, create_test_instance, create_small_instance}
        \cup {uniform_instance(n, d) : n \in 2..3, d \in 0..MaxDist}

(* the paths over the cities of an instance *)
PathsOf(instance) ==
    UNION {[1..k -> 0..(instance.num_cities - 1)] :
                k \in 0..(instance.num_cities + 1 + MaxOver)}

SolutionInit ==
    /\ coll = DefaultCollection
    /\ pre = DefaultCollection
    /\ op = NoOp
    /\ next_id = 1
    /\ solver = NoSolver
    /\ run = NoRun
    /\ twin = NoRun
    /\ tree = NoTree
    /\ hash = NoHash
    /\ \E instance \in SolutionInstances :
        \E path \in PathsOf(instance) : sol = TSPSolution_new(instance, path)
    /\ tour = NoTour

(* sol.is_valid() *)
IsValid ==
    /\ sol' = [sol EXCEPT !.call = [name |-> "is_valid",
                                    ret |-> <<is_valid(sol.instance, sol.path)>>]]
    /\ UNCHANGED <<coll, pre, op, next_id, solver, run, twin, tree, hash, tour>>

(* sol.is_valid_subsolution() *)
IsValidSubsolution ==
    /\ sol' = [sol EXCEPT !.call = [name |-> "is_valid_subsolution",
                                    ret |-> <<is_valid_subsolution(sol.instance, sol.path)>>]]
    /\ UNCHANGED <<coll, pre, op, next_id, solver, run, twin, tree, hash, tour>>

(* sol.get_time_distance(), which reads path[0] *)
GetTimeDistance ==
    /\ sol.path # <<>>
    /\ sol' = [sol EXCEPT !.call = [name |-> "get_time_distance",
                                    ret |-> <<get_time_distance(sol.instance, sol.path)>>]]
    /\ UNCHANGED <<coll, pre, op, next_id, solver, run, twin, tree, hash, tour>>

SolutionNext == IsValid \/ IsValidSubsolution \/ GetTimeDistance

SpecSolution == SolutionInit /\ [][SolutionNext]_vars

----------------------------------------------------------------------------
(* The nodes that repeated calls of expand reach from the start node *)

ExpandInstances ==
    Instances \cup {far_future_instance, late_start_instance, late_single_city_instance,
                    two_city_instance, solution_test_instance}

ExpandInit ==
    /\ coll = DefaultCollection
    /\ pre = DefaultCollection
    /\ op = NoOp
    /\ next_id = 1
    /\ solver = NoSolver
    /\ run = NoRun
    /\ twin = NoRun
    /\ tree = NoTree
    /\ hash = NoHash
    /\ sol = NoSolution
    /\ \E instance \in ExpandInstances :
        tour = [instance |-> instance, node |-> new_root(0, start_node(instance))]

(* node = node.new_child(one of expand(&node, &instance)) *)
ExpandChild ==
    /\ \E k \in DOMAIN tsp_expand(tour.node, tour.instance) :
        tour' = [tour EXCEPT !.node =
                    new_child(tour.node, 0, tsp_expand(tour.node, tour.instance)[k])]
    /\ UNCHANGED <<coll, pre, op, next_id, solver, run, twin, tree, hash, sol>>

ExpandNext == ExpandChild

SpecExpand == ExpandInit /\ [][ExpandNext]_vars

----------------------------------------------------------------------------
(* Properties of the pool *)

Range(s) == {s[i] : i \in DOMAIN s}

Fits(nodes) == [i \in DOMAIN nodes |-> fitness(nodes[i].data)]

NonDecreasing(nodes) ==
    \A i, j \in DOMAIN nodes : i < j => fitness(nodes[i].data) <= fitness(nodes[j].data)

(* C1: whenever the sorted flag of the pool is true, its nodes are in *)
(* non-decreasing order of fitness.                                    *)
C1_SortedFlagMeansOrdered == coll.sorted => NonDecreasing(coll.nodes)

(* C2: get_best returns a node whose fitness is at most that of every *)
(* node of the pool, and returns nothing exactly when the pool is empty. *)
C2_GetBestIsMinimum ==
    LET best == get_best(coll)
    IN /\ (best = <<>>) <=> (coll.nodes = <<>>)
       /\ best # <<>> =>
            /\ best[1] \in Range(coll.nodes)
            /\ \A n \in Range(coll.nodes) : fitness(best[1].data) <= fitness(n.data)

(* C3: keep_best(k) with k >= len returns 0 and changes no node; with *)
(* k < len it leaves exactly the k smallest fitness values of the pool, *)
(* in non-decreasing order, and returns len - k.                        *)
C3_KeepBestKeepsSmallest ==
    op.name = "keep_best" =>
        IF op.arg >= Len(pre.nodes)
        THEN op.ret = 0 /\ coll.nodes = pre.nodes
        ELSE /\ Len(coll.nodes) = op.arg
             /\ Fits(coll.nodes) = SubSeq(Fits(inner_sort(pre.nodes)), 1, op.arg)
             /\ op.ret = Len(pre.nodes) - op.arg

(* the multiset of the nodes of a sequence *)
BagOf(nodes) == [n \in Range(nodes) |-> Cardinality({i \in DOMAIN nodes : nodes[i] = n})]

(* nodes of equal fitness are in the order in which they are in before *)
KeepsOrderOfEquals(before, after) ==
    \A i, j \in DOMAIN after :
        (i < j /\ fitness(after[i].data) = fitness(after[j].data)) =>
            \E k, l \in DOMAIN before : k < l /\ before[k] = after[i] /\ before[l] = after[j]

(* C17: sort() leaves the same multiset of nodes, in non-decreasing order *)
(* of fitness, with the sorted flag set and with nodes of equal fitness   *)
(* in the order they had; a second sort() changes nothing.                *)
C17_SortOrdersAndIsIdempotent ==
    op.name = "sort" =>
        /\ BagOf(coll.nodes) = BagOf(pre.nodes)
        /\ NonDecreasing(coll.nodes)
        /\ coll.sorted
        /\ KeepsOrderOfEquals(pre.nodes, coll.nodes)
        /\ sort(coll) = coll

OpSim(a, b) == call_is_similar(op.sim, a, b)

OpKey(n) == call_similarity_hash(op.key, n)

(* the nodes of the pool before the call that share the bucket of n *)
BucketOf(n) == {m \in Range(pre.nodes) : OpKey(m) = OpKey(n)}

(* C7: a node whose fitness is strictly smaller than that of every other *)
(* node of its bucket survives remove_similars, for every is_similar and *)
(* bucket_key.                                                            *)
C7_UniqueMinimumSurvives ==
    op.name = "remove_similars" =>
        \A n \in Range(pre.nodes) :
            (\A m \in BucketOf(n) \ {n} : fitness(n.data) < fitness(m.data))
                => n \in Range(coll.nodes)

(* a bucket of several nodes lost a node and kept its strict minimum *)
C7_Witness ==
    /\ op.name = "remove_similars"
    /\ \E n \in Range(pre.nodes) :
        /\ BucketOf(n) \ {n} # {}
        /\ \A m \in BucketOf(n) \ {n} : fitness(n.data) < fitness(m.data)
        /\ \E m \in BucketOf(n) : m \notin Range(coll.nodes)
        /\ n \in Range(coll.nodes)

(* set T is linked: every member is reached from every other member *)
(* through pairs of members for which is_similar holds               *)
RECURSIVE Reach(_, _)
Reach(T, R) ==
    LET R2 == R \cup {m \in T : \E r \in R : OpSim(r, m) \/ OpSim(m, r)}
    IN IF R2 = R THEN R ELSE Reach(T, R2)

Linked(T) == T # {} /\ \A n \in T : Reach(T, {n}) = T

(* a linked set taken whole: no node of the bucket outside it is similar *)
(* to a member                                                           *)
LinkedWhole(T, bucket) ==
    /\ Linked(T)
    /\ \A a \in T : \A x \in bucket \ T : ~OpSim(a, x) /\ ~OpSim(x, a)

ExactlyTheBestSurvives(T) ==
    /\ Cardinality(T \cap Range(coll.nodes)) = 1
    /\ \A n \in T \cap Range(coll.nodes) :
            \A m \in T : fitness(n.data) <= fitness(m.data)

(* C8 as stated: of every linked set of nodes of one bucket, under a *)
(* symmetric is_similar, exactly one member survives remove_similars, *)
(* a member of lowest fitness (the set taken whole, so that no node   *)
(* outside it can remove a member).                                   *)
C8_LinkedSetLeavesOne ==
    (op.name = "remove_similars" /\ op.sim \in SymmetricSimKinds) =>
        \A n \in Range(pre.nodes) :
            \A T \in SUBSET BucketOf(n) :
                LinkedWhole(T, BucketOf(n)) => ExactlyTheBestSurvives(T)

(* every two members of T are similar and no other node of the bucket *)
(* is similar to a member                                             *)
SimilarityClass(T, bucket) ==
    /\ T # {}
    /\ \A a, b \in T : a # b => OpSim(a, b)
    /\ \A a \in T : \A x \in bucket \ T : ~OpSim(a, x) /\ ~OpSim(x, a)

(* C8 amended: of every set of nodes of one bucket in which every two *)
(* members are similar under a symmetric is_similar and none is similar *)
(* to a node of the bucket outside the set, exactly one member survives *)
(* remove_similars, a member of lowest fitness.                          *)
C8_SimilarityClassLeavesOne ==
    (op.name = "remove_similars" /\ op.sim \in SymmetricSimKinds) =>
        \A n \in Range(pre.nodes) :
            \A T \in SUBSET BucketOf(n) :
                SimilarityClass(T, BucketOf(n)) => ExactlyTheBestSurvives(T)

(* a class of several nodes of differing fitness, next to another node *)
(* of the same bucket, was reduced to its best member                  *)
C8_Witness ==
    /\ op.name = "remove_similars"
    /\ op.sim \in SymmetricSimKinds
    /\ \E n \in Range(pre.nodes) :
        \E T \in SUBSET BucketOf(n) :
            /\ SimilarityClass(T, BucketOf(n))
            /\ Cardinality(T) >= 2
            /\ BucketOf(n) \ T # {}
            /\ \E a, b \in T : fitness(a.data) < fitness(b.data)
            /\ ExactlyTheBestSurvives(T)

(* the pool before the call restricted to the nodes of bucket key k *)
OnlyBucket(k) ==
    [nodes |-> SelectSeq(pre.nodes, LAMBDA n : OpKey(n) = k), sorted |-> pre.sorted]

(* the order that takes the buckets by ascending key *)
AscendingOrder(K) ==
    CHOOSE o \in IterationOrders(K) : \A i, j \in DOMAIN o : i < j => o[i] < o[j]

(* C11: the set of nodes that survive remove_similars and the returned  *)
(* count are the same for every order in which the buckets are taken    *)
(* (the call is made with every order, and each result is compared with *)
(* that of the call taking the buckets by ascending key), and the       *)
(* survivors of a bucket are those of a call on that bucket alone: no   *)
(* scan depends on the nodes of another bucket.                         *)
C11_BucketOrderDoesNotMatter ==
    op.name = "remove_similars" =>
        /\ LET r == remove_similars(pre, op.sim, op.key,
                                    AscendingOrder(BucketKeys(pre.nodes, op.key)))
           IN Range(r.coll.nodes) = Range(coll.nodes) /\ r.ret = op.ret
        /\ \A k \in BucketKeys(pre.nodes, op.key) :
                {n \in Range(coll.nodes) : OpKey(n) = k}
                    = Range(remove_similars(OnlyBucket(k), op.sim, op.key, <<k>>).coll.nodes)

(* several buckets, a node removed, and another bucket order that gives *)
(* the pool a different node order                                      *)
C11_Witness ==
    /\ op.name = "remove_similars"
    /\ Cardinality(BucketKeys(pre.nodes, op.key)) > 1
    /\ op.ret > 0
    /\ \E order \in IterationOrders(BucketKeys(pre.nodes, op.key)) :
            remove_similars(pre, op.sim, op.key, order).coll.nodes # coll.nodes

(* C18: remove_similars removes a node only because of a node of its    *)
(* own bucket that is similar to it and not worse, so nodes of other    *)
(* buckets never remove it; every survivor was in the pool before the   *)
(* call, once; and the returned count is the size before minus the size *)
(* after.                                                               *)
C18_OnlyOwnBucketRemoves ==
    op.name = "remove_similars" =>
        /\ \A n \in Range(pre.nodes) \ Range(coll.nodes) :
                \E m \in BucketOf(n) \ {n} :
                    OpSim(n, m) /\ fitness(m.data) <= fitness(n.data)
        /\ \A n \in Range(pre.nodes) :
                (\A m \in BucketOf(n) \ {n} : ~OpSim(n, m)) => n \in Range(coll.nodes)
        /\ Range(coll.nodes) \subseteq Range(pre.nodes)
        /\ \A i, j \in DOMAIN coll.nodes : coll.nodes[i] = coll.nodes[j] => i = j
        /\ op.ret = Len(pre.nodes) - Len(coll.nodes)
        /\ op.ret = Cardinality(Range(pre.nodes) \ Range(coll.nodes))

(* two nodes of different buckets that are similar to each other both   *)
(* survive, while a node is removed by a node of its own bucket          *)
C18_Witness ==
    /\ op.name = "remove_similars"
    /\ op.ret > 0
    /\ \E a, b \in Range(coll.nodes) :
            /\ OpKey(a) # OpKey(b)
            /\ OpSim(a, b) /\ OpSim(b, a)
            /\ fitness(a.data) < fitness(b.data)

(* the cells reached from the cells of S over parent links, S included *)
RECURSIVE ParentClosure(_, _, _)
ParentClosure(inner, S, k) ==
    IF k = 0 THEN S
    ELSE ParentClosure(inner,
                       S \cup {inner[a].parent[1] : a \in {b \in S : inner[b].parent # <<>>}},
                       k - 1)

ProperAncestors(a) == ParentClosure(tree.inner, {a}, Len(tree.inner)) \ {a}

(* the cells that are not freed *)
Live == {a \in DOMAIN tree.inner : ~tree.inner[a].freed}

(* C19: for every node, ancestors() yields the node, then its parent,   *)
(* then each further parent, ends with a root and yields no node twice  *)
(* (its length is the number of proper ancestors plus one); parents()   *)
(* yields the same without the node itself; is_root holds exactly for   *)
(* the nodes made by new_root; a walk leaves the tree as it was, so     *)
(* that the next call yields the same sequence.                         *)
C19_WalkFollowsParentsToARoot ==
    /\ [](\A a \in Live :
            LET anc == ancestors(tree.inner, a)
            IN /\ anc # <<>> /\ anc[1] = a
               /\ \A i \in 1..(Len(anc) - 1) : tree.inner[anc[i]].parent = <<anc[i + 1]>>
               /\ is_root(tree.inner[anc[Len(anc)]])
               /\ \A i, j \in DOMAIN anc : anc[i] = anc[j] => i = j
               /\ Len(anc) = Cardinality(ProperAncestors(a)) + 1
               /\ parents(tree.inner, a) = Tail(anc)
               /\ is_root(tree.inner[a]) <=> tree.made_by[a] = "new_root")
    /\ [](tree.op.name = "walk" =>
            /\ tree.op.ancestors = ancestors(tree.inner, tree.op.node)
            /\ tree.op.parents = parents(tree.inner, tree.op.node))
    /\ [][tree'.op.name = "walk" =>
            tree'.inner = tree.inner /\ tree'.handles = tree.handles]_tree

(* a walk from a node with two proper ancestors, in a tree whose root   *)
(* was walked to although the caller holds no handle of it               *)
C19_Witness ==
    /\ tree.op.name = "walk"
    /\ Len(tree.op.ancestors) = 3
    /\ Len(tree.op.parents) = 2
    /\ tree.handles[tree.op.ancestors[3]] = 0

(* the live cells that have cell a as their parent *)
LiveChildren(a) == {c \in Live : tree.inner[c].parent = <<a>>}

(* C20: after any sequence of new_root, new_child, clone and drop, the *)
(* live cells are exactly those reached over parent links from a       *)
(* handle, and the count of a live cell is the number of its handles   *)
(* and live children; a drop frees exactly the cells that the handles  *)
(* left no longer reach, so an ancestor shared with a live node stays; *)
(* new_child adds one cell whose parent is the cell of self and leaves *)
(* the parent, payload and liveness of every existing cell alone.      *)
C20_LiveIsReachableFromHandles ==
    /\ [](Live = ParentClosure(tree.inner, Held, Len(tree.inner)))
    /\ [](\A a \in DOMAIN tree.inner :
            tree.inner[a].strong =
                IF tree.inner[a].freed THEN 0
                ELSE tree.handles[a] + Cardinality(LiveChildren(a)))
    /\ [][tree'.op.name = "drop" =>
            /\ \A a \in DOMAIN tree.inner :
                    /\ tree'.inner[a].parent = tree.inner[a].parent
                    /\ tree'.inner[a].data = tree.inner[a].data
            /\ {a \in Live : tree'.inner[a].freed}
                    = Live \ ParentClosure(tree.inner,
                                           {h \in DOMAIN tree'.handles : tree'.handles[h] > 0},
                                           Len(tree.inner))]_tree
    /\ [][tree'.op.name = "new_child" =>
            /\ Len(tree'.inner) = Len(tree.inner) + 1
            /\ tree'.inner[Len(tree'.inner)].parent = <<tree'.op.node>>
            /\ ~tree'.inner[Len(tree'.inner)].freed
            /\ \A a \in DOMAIN tree.inner :
                    /\ tree'.inner[a].parent = tree.inner[a].parent
                    /\ tree'.inner[a].data = tree.inner[a].data
                    /\ tree'.inner[a].freed = tree.inner[a].freed]_tree

(* the last handle of a node was dropped and the node freed, while its *)
(* parent, of which the caller holds no handle, lives on for another   *)
(* live child                                                          *)
C20_Witness ==
    /\ tree.op.name = "drop"
    /\ tree.inner[tree.op.node].freed
    /\ tree.inner[tree.op.node].parent # <<>>
    /\ LET p == tree.inner[tree.op.node].parent[1]
       IN /\ ~tree.inner[p].freed
          /\ tree.handles[p] = 0
          /\ LiveChildren(p) # {}

(* the last handle of a node was dropped and the node and its parent   *)
(* were freed with it                                                  *)
C20_ChainFreed ==
    /\ tree.op.name = "drop"
    /\ tree.inner[tree.op.node].freed
    /\ tree.inner[tree.op.node].parent # <<>>
    /\ tree.inner[tree.inner[tree.op.node].parent[1]].freed
    /\ Live # {}

(* the sequences that hold the entries of path in another order *)
PermutationsOf(path) ==
    {[i \in DOMAIN path |-> path[f[i]]] :
        f \in {g \in [DOMAIN path -> DOMAIN path] : \A i, j \in DOMAIN path : g[i] = g[j] => i = j}}

FoldedAll == hash.folded = Len(hash.path)

(* C21: the fold of calc_commutative_hash over a path from seed 0 or 1   *)
(* gives the same value for every permutation of the path (and, for a   *)
(* path that is not empty, the same from both seeds), for cities below  *)
(* ExpectedCities and for cities from ExpectedCities on.                *)
C21_HashIgnoresVisitingOrder ==
    FoldedAll =>
        /\ hash.value = fold_hash(hash.seed, hash.path)
        /\ \A q \in PermutationsOf(hash.path) :
                /\ fold_hash(hash.seed, q) = hash.value
                /\ q # <<>> => fold_hash(1 - hash.seed, q) = hash.value

(* C21 for the paths that hold only cities below ExpectedCities: there   *)
(* the product never reaches 2^32, the value is the product of the city *)
(* numbers modulo PRIME and never 0                                      *)
C21_BelowExpectedCities ==
    (FoldedAll /\ \A i \in DOMAIN hash.path : hash.path[i] < ExpectedCities) =>
        /\ \A q \in PermutationsOf(hash.path) :
                /\ fold_hash(hash.seed, q) = hash.value
                /\ q # <<>> => fold_hash(1 - hash.seed, q) = hash.value
        /\ hash.path # <<>> => hash.value # 0

(* a path of MaxPath cities below ExpectedCities has been folded *)
C21_BelowWitness ==
    /\ FoldedAll
    /\ Len(hash.path) = MaxPath
    /\ \A i \in DOMAIN hash.path : hash.path[i] < ExpectedCities

----------------------------------------------------------------------------
(* Properties of the solver *)

Returned(r) == r.pc = "done" /\ r.result[1].best # <<>>

(* C4: a best node returned by solve() is in the final frontier, satisfies *)
(* is_valid, has a fitness at most that of every node of the final         *)
(* frontier, and the returned count is the number of children expanded.    *)
C4_ReturnedBestIsFrontierMinimum ==
    Returned(run) =>
        LET best == run.result[1].best[1]
        IN /\ best \in Range(run.coll.nodes)
           /\ call_is_valid_solution(solver.is_valid_solution, best)
           /\ \A n \in Range(run.coll.nodes) : fitness(best.data) <= fitness(n.data)
           /\ run.result[1].nr_expansions = run.next_id - 1 - run.nr_roots

(* C5: when an iteration of solve() expands no child, the frontier that *)
(* is evaluated holds exactly the nodes of the frontier before it.      *)
C5_FruitlessGenerationKeepsFrontier ==
    run.pc = "done" => Range(run.coll.nodes) = Range(run.old_coll.nodes)

(* C6: after every generation that expanded a child the frontier holds at *)
(* most beam_width nodes, and so does every frontier that an expansion    *)
(* after generation zero reads.                                           *)
C6_FrontierWithinBeamWidth ==
    /\ run.generation > 0 => Len(run.coll.nodes) <= solver.beam_width
    /\ (run.generation > 1 \/ (run.generation = 1 /\ run.pc = "done"))
            => Len(run.old_coll.nodes) <= solver.beam_width

(* a generation expanded more children than beam_width and was truncated *)
C6_Witness ==
    /\ run.pc = "loop"
    /\ run.generation > 0
    /\ solver.beam_width > 0
    /\ run.nr_expanded > solver.beam_width
    /\ Len(run.coll.nodes) = solver.beam_width

(* the children that the expander returns for the nodes of a frontier *)
ChildrenOf(nodes) ==
    SumSeq([i \in DOMAIN nodes |-> Len(call_expander(solver.expander, nodes[i]))])

(* the edges of the full expansion tree below node n *)
RECURSIVE TreeEdges(_)
TreeEdges(n) ==
    LET children == call_expander(solver.expander, n)
    IN SumSeq([j \in DOMAIN children |-> 1 + TreeEdges(new_child(n, 0, children[j]))])

(* the nodes of the full expansion tree that are depth levels below node n *)
RECURSIVE TreeWidth(_, _)
TreeWidth(n, depth) ==
    IF depth = 0 THEN 1
    ELSE LET children == call_expander(solver.expander, n)
         IN SumSeq([j \in DOMAIN children |->
                        TreeWidth(new_child(n, 0, children[j]), depth - 1)])

RootNodes == [i \in DOMAIN run.roots |-> new_root(0, run.roots[i])]

(* neither remove_similars nor keep_best ever drops a node of this search *)
NothingDropped ==
    /\ (~solver.prune_similars \/ solver.is_similar = "never")
    /\ \A depth \in 1..solver.expander.last_level :
            SumSeq([i \in DOMAIN RootNodes |-> TreeWidth(RootNodes[i], depth)])
                <= solver.beam_width

(* C12: every generation adds to the count the number of children that  *)
(* expand returns for the nodes of its frontier, before deduplication    *)
(* and truncation, and solve() returns that count; when nothing is       *)
(* dropped it is the number of edges of the full expansion tree; for     *)
(* test_big_solve from one default root it is 2 + 4 + 8 * 8 = 70.        *)
C12_CountsEveryChild ==
    /\ [][run'.all_expansions = run.all_expansions + ChildrenOf(run.coll.nodes)]_run
    /\ [](run.pc = "done" =>
            /\ run.result[1].nr_expansions = run.all_expansions
            /\ NothingDropped =>
                    run.all_expansions = SumSeq([i \in DOMAIN RootNodes |->
                                                    TreeEdges(RootNodes[i])])
            /\ (solver = test_big_solve
                    /\ run.roots = <<[dummy_fitness |-> 0, dummy_level |-> 0]>>)
                    => run.result[1].nr_expansions = 70)

(* test_big_solve has returned after generations that were truncated *)
C12_Witness ==
    /\ run.pc = "done"
    /\ solver = test_big_solve
    /\ run.roots = <<[dummy_fitness |-> 0, dummy_level |-> 0]>>
    /\ run.generation = TestBigLastLevel
    /\ run.all_expansions > Len(run.coll.nodes)

(* a search in which nothing was dropped has returned the edges of a tree *)
(* of several levels                                                      *)
C12_FullTreeWitness ==
    /\ run.pc = "done"
    /\ NothingDropped
    /\ run.generation > 1
    /\ run.all_expansions > 2

(* the pool that BeamsearchSolver::new builds from the start nodes *)
InitialPool == add_all(DefaultCollection, run.roots, 1)

(* C13: when no node of the initial pool yields a child, solve() returns  *)
(* in generation zero with a count of 0 and with best = get_best() of the *)
(* initial pool if that node exists and is_valid holds for it, and with   *)
(* no best otherwise.                                                     *)
C13_FruitlessStartReturnsInitialBest ==
    (run.pc = "done" /\ ChildrenOf(InitialPool.nodes) = 0) =>
        /\ run.generation = 0
        /\ run.result[1].nr_expansions = 0
        /\ LET best == get_best(InitialPool)
           IN IF best # <<>> /\ call_is_valid_solution(solver.is_valid_solution, best[1])
              THEN run.result[1].best = best
              ELSE run.result[1].best = <<>>

(* the nodes of minimum fitness of the final frontier *)
MinimumNodes ==
    {n \in Range(run.coll.nodes) :
        \A m \in Range(run.coll.nodes) : fitness(n.data) <= fitness(m.data)}

(* C14: solve() returns no best when is_valid is false for the node of   *)
(* minimum fitness of the final frontier, whatever is_valid says of the  *)
(* other nodes, and returns a best when is_valid holds for it: only that *)
(* node decides.                                                         *)
C14_OnlyTheMinimumIsValidated ==
    (run.pc = "done" /\ run.coll.nodes # <<>>) =>
        /\ (\A n \in MinimumNodes : ~call_is_valid_solution(solver.is_valid_solution, n))
                => run.result[1].best = <<>>
        /\ (\A n \in MinimumNodes : call_is_valid_solution(solver.is_valid_solution, n))
                => run.result[1].best # <<>>

(* the number of proper ancestors of node n *)
RECURSIVE Depth(_)
Depth(n) == IF n.parent = <<>> THEN 0 ELSE 1 + Depth(n.parent[1])

(* a D for the expander of the solver: a child has a level above its     *)
(* parent's and no start level is negative, so a node with last_level or *)
(* more proper ancestors has a level of last_level or more, and the      *)
(* expander returns no children for it                                   *)
CutOffDepth == solver.expander.last_level

(* C15: with an expander that returns no children for nodes with D or    *)
(* more proper ancestors, solve() has at most D productive generations;   *)
(* every iteration of its loop either is productive or returns, an        *)
(* iteration can always be taken, and solve() returns only from an        *)
(* iteration that expanded nothing: it returns within D + 1 iterations.   *)
C15_TerminatesWithinCutOff ==
    /\ [](run.generation <= CutOffDepth)
    /\ [](run.pc = "loop" => PruneOrders(solver, expand(solver, run).coll) # {})
    /\ [][run.pc = "loop" /\
            \/ (run'.pc = "loop" /\ run'.generation = run.generation + 1
                    /\ run'.nr_expanded > 0)
            \/ (run'.pc = "done" /\ run'.generation = run.generation
                    /\ run'.nr_expanded = 0 /\ ChildrenOf(run.coll.nodes) = 0)]_run

(* solve() has returned after as many productive generations as the *)
(* cut-off allows, and more than one                                *)
C15_Witness ==
    /\ run.pc = "done"
    /\ run.generation = CutOffDepth
    /\ run.generation > 1
    /\ \E n \in Range(run.coll.nodes) : Depth(n) = CutOffDepth

(* C16: after g productive generations every frontier node has exactly g *)
(* proper ancestors; after a productive generation every frontier node    *)
(* is a child that the expander returned for its parent, a node of the    *)
(* previous frontier, and no node of the previous frontier is in the new  *)
(* one; a returned best has as many proper ancestors as there were        *)
(* productive generations, and test_simple_solve from one default root    *)
(* returns fitness = level = 2.                                           *)
C16_FrontierIsSuperseded ==
    /\ \A n \in Range(run.coll.nodes) : Depth(n) = run.generation
    /\ (run.pc = "loop" /\ run.generation > 0) =>
            /\ \A n \in Range(run.coll.nodes) :
                    /\ n.parent # <<>>
                    /\ n.parent[1] \in Range(run.old_coll.nodes)
                    /\ n.data \in Range(call_expander(solver.expander, n.parent[1]))
            /\ Range(run.coll.nodes) \cap Range(run.old_coll.nodes) = {}
    /\ Returned(run) => Depth(run.result[1].best[1]) = run.generation
    /\ (run.pc = "done" /\ solver = test_simple_solve
            /\ run.roots = <<[dummy_fitness |-> 0, dummy_level |-> 0]>>)
            => (Returned(run)
                /\ run.result[1].best[1].data = [dummy_fitness |-> 2, dummy_level |-> 2])

(* a productive generation in which a node of the previous frontier *)
(* yielded no child while another one did                           *)
C16_Witness ==
    /\ run.pc = "loop"
    /\ run.generation > 0
    /\ run.coll.nodes # <<>>
    /\ \E n \in Range(run.old_coll.nodes) : call_expander(solver.expander, n) = <<>>

(* the payloads from a node up to its root: what a caller can tell of a node *)
RECURSIVE Ancestry(_)
Ancestry(n) == <<n.data>> \o (IF n.parent = <<>> THEN <<>> ELSE Ancestry(n.parent[1]))

Outcome(r) ==
    [best |-> IF r.result[1].best = <<>> THEN <<>> ELSE Ancestry(r.result[1].best[1]),
     nr_expansions |-> r.result[1].nr_expansions]

(* C10: two runs of solve() with equal start nodes, params and closures *)
(* return the same best node (or both none) and the same count,          *)
(* whatever the order in which the buckets are processed.                *)
C10_ResultIndependentOfBucketOrder ==
    (run.pc = "done" /\ twin.pc = "done") => Outcome(run) = Outcome(twin)

----------------------------------------------------------------------------
(* Properties of the TSPTW adapter *)

VisitedCities(n) == SeqRange(ancestor_targets(n))

(* C9: two nodes of a TSPTW search for which the is_similar that solve_tsp *)
(* passes holds have the same bucket key, and that is_similar holds        *)
(* exactly for nodes of the same target and the same set of visited cities. *)
C9_SimilarNodesShareBucketKey ==
    \A a, b \in Range(run.coll.nodes) :
        LET similar == call_is_similar(solver.is_similar, a, b)
        IN /\ similar => call_similarity_hash(solver.similarity_hash, a)
                            = call_similarity_hash(solver.similarity_hash, b)
           /\ similar <=> (a.data.target = b.data.target
                            /\ VisitedCities(a) = VisitedCities(b))

(* the sum of the leg distances of path *)
PathDist(instance, path) ==
    SumSeq([k \in 1..(Len(path) - 1) |-> dist_from_to(instance, path[k], path[k + 1])])

(* the round trips from city 0 over all cities that satisfy is_valid *)
ValidRoundTrips(instance) ==
    {path \in {<<0>> \o q \o (IF instance.num_cities = 1 THEN <<>> ELSE <<0>>) :
                    q \in PermutationsOf([i \in 1..(instance.num_cities - 1) |-> i])} :
        is_valid(instance, path)}

TspInstance == solver.expander.instance

(* C22: for an instance that has a valid round trip from city 0,       *)
(* solve_tsp with pruning and a beam width that no generation exceeds  *)
(* returns a round trip from city 0 to city 0 that satisfies is_valid  *)
(* and has the least distance of all valid round trips; for the        *)
(* instance of the tests it is 0 2 1 0 with distance 1101 and time     *)
(* 1200.                                                               *)
C22_SolveTspReturnsShortestRoundTrip ==
    (/\ run.pc = "done"
     /\ solver.prune_similars
     /\ solver.beam_width = TspBeamWidth
     /\ ValidRoundTrips(TspInstance) # {}) =>
        /\ run.result[1].best # <<>>
        /\ LET best == run.result[1].best[1]
               path == path_of(best)
           IN /\ path[1] = 0 /\ path[Len(path)] = 0
              /\ is_valid(TspInstance, path)
              /\ best.data.dist = PathDist(TspInstance, path)
              /\ \A other \in ValidRoundTrips(TspInstance) :
                    best.data.dist <= PathDist(TspInstance, other)
              /\ TspInstance = create_test_instance =>
                    /\ path = <<0, 2, 1, 0>>
                    /\ best.data.dist = 1101
                    /\ best.data.time = 1200

(* the arrival times along path for a trip that starts at the opening *)
(* of the window of the first city and waits for a window to open      *)
RECURSIVE ArrivalsFrom(_, _, _, _)
ArrivalsFrom(instance, path, k, left) ==
    IF k > Len(path) THEN <<>>
    ELSE LET arrival == left + dist_from_to(instance, path[k - 1], path[k])
         IN <<arrival>> \o ArrivalsFrom(instance, path, k + 1,
                                        Max(arrival, window_of(instance, path[k])[1]))

Arrivals(instance, path) ==
    <<window_of(instance, path[1])[1]>>
        \o ArrivalsFrom(instance, path, 2, window_of(instance, path[1])[1])

RespectsWindows(instance, path) ==
    \A k \in DOMAIN path : Arrivals(instance, path)[k] <= window_of(instance, path[k])[2]

(* path is a closed round trip over all cities of the instance *)
ClosedRoundTrip(instance, path) ==
    LET n == instance.num_cities
    IN /\ Len(path) = (IF n = 1 THEN 1 ELSE n + 1)
       /\ path[Len(path)] = path[1]
       /\ {path[k] : k \in 1..n} = 0..(n - 1)

(* some entry of path repeats an earlier one and is not the return to *)
(* the first city that closes a round trip                            *)
RepeatsACity(instance, path) ==
    \E i, j \in DOMAIN path :
        /\ i < j
        /\ path[i] = path[j]
        /\ ~(i = 1 /\ j = Len(path) /\ j = instance.num_cities + 1)

(* C23: is_valid holds exactly for the closed round trips that respect *)
(* every window (n + 1 entries, 1 when n = 1, the last equal to the    *)
(* first, the first n entries the n cities, no arrival after the end   *)
(* of a window), and is_valid_subsolution rejects every path that      *)
(* repeats a city anywhere but as the closing return.                  *)
C23_IsValidIffRoundTripInWindows ==
    /\ sol.call.name = "is_valid" =>
            (sol.call.ret[1] <=> (/\ ClosedRoundTrip(sol.instance, sol.path)
                                  /\ RespectsWindows(sol.instance, sol.path)))
    /\ sol.call.name = "is_valid_subsolution" =>
            (RepeatsACity(sol.instance, sol.path) => ~sol.call.ret[1])

(* C23, the part on is_valid alone *)
C23_IsValidAlone ==
    sol.call.name = "is_valid" =>
        (sol.call.ret[1] <=> (/\ ClosedRoundTrip(sol.instance, sol.path)
                              /\ RespectsWindows(sol.instance, sol.path)))

(* is_valid accepted a round trip of three cities *)
C23_IsValidWitness ==
    /\ sol.call.name = "is_valid"
    /\ sol.call.ret[1]
    /\ sol.instance.num_cities = 3

(* C24: after remove_similars no two survivors of one bucket are       *)
(* similar (is_similar(worse, better) is false, the worse being the     *)
(* one of higher fitness; of two survivors of equal fitness at least    *)
(* one is not similar to the other), so the call of remove_similars     *)
(* that follows at once with the same closures removes nothing and      *)
(* returns 0.                                                           *)
C24_SecondDedupRemovesNothing ==
    op.name = "remove_similars" =>
        /\ \A a, b \in Range(coll.nodes) :
                (a # b /\ OpKey(a) = OpKey(b)) =>
                    /\ fitness(a.data) < fitness(b.data) => ~OpSim(b, a)
                    /\ fitness(a.data) = fitness(b.data) => (~OpSim(a, b) \/ ~OpSim(b, a))
        /\ op.arg = 1 =>
                /\ op.ret = 0
                /\ Range(coll.nodes) = Range(pre.nodes)

(* C24 for the closures is_similar that are symmetric *)
C24_SymmetricSimilarity ==
    op.sim \in SymmetricSimKinds => C24_SecondDedupRemovesNothing

(* a second call after a first one that removed a node of a bucket of *)
(* MaxGroup nodes                                                      *)
C24_SymmetricWitness ==
    /\ op.name = "remove_similars"
    /\ op.arg = 1
    /\ op.sim \in SymmetricSimKinds \ {"never"}
    /\ op.key = "zero"
    /\ next_id = MaxGroup + 1
    /\ Len(coll.nodes) \in 2..(MaxGroup - 1)

TourPath == path_of(tour.node)

TourCities == tour.instance.num_cities

(* C25: every node that expand reaches from the start node describes a *)
(* path that satisfies is_valid_subsolution: it starts at city 0,      *)
(* holds no city twice but city 0 as the entry n + 1 that closes the   *)
(* trip, and no arrival is after the end of the window of its target;  *)
(* every child targets a city not yet on the path, or the start city   *)
(* once all cities are on it, and a path of n + 1 entries (of 1 entry  *)
(* when n = 1) yields no children.                                     *)
C25_ExpandBuildsValidSubsolutions ==
    /\ is_valid_subsolution(tour.instance, TourPath)
    /\ TourPath[1] = 0
    /\ Len(TourPath) <= TourCities + 1
    /\ \A i, j \in DOMAIN TourPath :
            (i < j /\ TourPath[i] = TourPath[j]) => (i = 1 /\ j = TourCities + 1)
    /\ RespectsWindows(tour.instance, TourPath)
    /\ tour.node.data.time <= window_of(tour.instance, tour.node.data.target)[2]
    /\ Len(TourPath) = (IF TourCities = 1 THEN 1 ELSE TourCities + 1) =>
            /\ tsp_expand(tour.node, tour.instance) = <<>>
            /\ is_valid(tour.instance, TourPath)
    /\ \A k \in DOMAIN tsp_expand(tour.node, tour.instance) :
            LET child == tsp_expand(tour.node, tour.instance)[k]
            IN /\ child.target \in 0..(TourCities - 1)
               /\ IF Len(TourPath) = TourCities
                  THEN child.target = 0
                  ELSE child.target \notin SeqRange(TourPath)
               /\ child.time <= window_of(tour.instance, child.target)[2]

(* a closed round trip over four cities has been reached *)
C25_Witness ==
    /\ TourCities = 4
    /\ Len(TourPath) = TourCities + 1
    /\ TourPath[Len(TourPath)] = 0

(* C26: for the path of every node that expand reaches from the start   *)
(* node, get_time_distance returns the dist and the time of the node,   *)
(* also when the window of the first city opens after time 0.           *)
C26_TimeDistanceOfPathIsThatOfNode ==
    get_time_distance(tour.instance, TourPath)
        = [time |-> tour.node.data.time, dist |-> tour.node.data.dist]

(* the distance alone, and the time when the window of city 0 opens at 0 *)
C26_DistanceAndEarlyStart ==
    /\ get_time_distance(tour.instance, TourPath).dist = tour.node.data.dist
    /\ window_of(tour.instance, 0)[1] = 0 =>
            get_time_distance(tour.instance, TourPath).time = tour.node.data.time

(* a node that waited at a city of an instance whose first window opens late *)
C26_LateStartWitness ==
    /\ window_of(tour.instance, 0)[1] > 0
    /\ Len(TourPath) > 1
    /\ get_time_distance(tour.instance, TourPath).time # tour.node.data.time

====
